---- MODULE Spec2Model ----
(***************************************************************************)
(* Model of gintainer's update scheduler (package scheduler), its Caddy    *)
(* lifecycle service (package caddy), the container lifecycle handlers     *)
(* (package handlers) and the runtime operations UpdateContainer,          *)
(* calculateCPUPercent and StreamLogs (package runtime).                   *)
(*                                                                         *)
(* Strings that the code inspects character by character (container names *)
(* and filter patterns) are sequences of one-character strings; a cron     *)
(* schedule is the sequence of its space-separated fields.                 *)
(***************************************************************************)
EXTENDS Integers, Sequences, FiniteSets, TLC

VARIABLES
    \* ---- scheduler.Scheduler ----
    config,       \* *s.config: the CronJobConfig the scheduler holds
    jobID,        \* s.jobID: cron.EntryID of the registered job, 0 if none
    entries,      \* the entries registered in s.cron
    cronNext,     \* s.cron's last handed out EntryID
    cronRunning,  \* s.cron has been started
    mu,           \* s.mu: "free" or "W" (held exclusively)
    upd,          \* the UpdateConfig call in progress (its position and argument)
    hist,         \* history of UpdateConfig calls (observations, not program state)
    firing,       \* the job goroutine cron spawned (its position and config snapshot)
    sweep,        \* runUpdate's loop state and the engine calls it has issued
    runtimes,     \* runtimeManager: registered runtime name -> containers of that engine
    \* ---- caddy.Service ----
    caddyCfg,     \* *s.config: the CaddyConfig the service holds
    files,        \* the fragment file gintainer-<id>.caddy of each container id
    call,         \* the Service call in progress or last returned
    \* ---- handlers.Handler and the runtimes behind it ----
    engine,       \* the container engine: the state of each container id
    reqs,         \* the lifecycle requests (start, stop, delete) and their positions
    update,       \* the UpdateContainer call in progress or last returned
    cpu,          \* calculateCPUPercent: its argument and its result
    logs,         \* PodmanRuntime.StreamLogs: channels, goroutines and the pipe
    rtcall        \* a direct runtime call (labels, pods, RunContainer, NewPodmanRuntime)

vars ==
    <<config, jobID, entries, cronNext, cronRunning, mu, upd, hist, firing, sweep, runtimes,
      caddyCfg, files, call, engine, reqs, update, cpu, logs, rtcall>>

apiVars == <<engine, reqs, update, cpu, logs, rtcall>>

caddyVars == <<caddyCfg, files, call>>

schedVars == <<config, jobID, entries, cronNext, cronRunning, mu, upd, hist>>

-----------------------------------------------------------------------------
(* Bounds *)

\* UpdateConfig calls made in one behaviour
MaxUpdates == 2

\* lifecycle requests in flight at the same time
MaxRequests == 2

\* width in bits of the usage counters (uint64 in the program)
CounterBits == 2

\* online CPUs reported by the engine, at most
MaxCPUs == 2

\* capacity of stdoutChan and of stderrChan (logChannelBufferSize, 100 in the program)
LogBufferSize == 2

\* log lines the container produces
MaxLines == 3

-----------------------------------------------------------------------------
(* Values *)

DefaultSchedule == <<"0", "2", "*", "*", "*">>
OtherSchedule == <<"0", "*/4", "*", "*", "*">>
InvalidSchedule == <<"invalid", "cron">>
Schedules == {DefaultSchedule, OtherSchedule, InvalidSchedule}

\* field texts the standard five-field parser of cron.New() accepts
CronFields == {"0", "2", "*", "*/4"}

\* "app" style patterns over a small alphabet; "*" is the glob character
FilterLists == {<< >>, << <<"a", "*">> >>, << <<"a", "b">>, <<"c">> >>}

Configs == [Schedule : Schedules, Enabled : BOOLEAN, Filters : FilterLists]

Callers == {"http", "reload"}

\* cron.New() uses the standard parser: exactly five fields, each well formed
ParseStandard(spec) ==
    /\ Len(spec) = 5
    /\ \A i \in 1..Len(spec) : spec[i] \in CronFields

\* NewScheduler's config: 2 AM daily, disabled, no filters
DefaultConfig == [Schedule |-> DefaultSchedule, Enabled |-> FALSE, Filters |-> << >>]

NoCall == [pc |-> "idle", cfg |-> DefaultConfig, caller |-> "none"]

NoHist ==
    [calls |-> 0, res |-> "none", lastCfg |-> DefaultConfig, lastCaller |-> "none",
     preConfig |-> DefaultConfig, preEntries |-> {}, allOk |-> TRUE,
     prevArmed |-> FALSE, twoArmed |-> FALSE, callersDone |-> {}]

NoFiring ==
    [pc |-> "idle", snapshot |-> DefaultConfig, expect |-> DefaultConfig,
     midUpdate |-> FALSE, spawnedAt |-> 0, startedAt |-> 0]

\* container ids of the two engines
DockerIDs == {"d1", "d2"}
PodmanIDs == {"p1"}
AllIDs == DockerIDs \cup PodmanIDs

NoSweep ==
    [todo |-> {}, cur |-> "none", idx |-> 0, calls |-> [id \in AllIDs |-> 0],
     listed |-> {}, listFailed |-> {}, updFailed |-> {}, complete |-> FALSE]

\* no lifecycle request, no engine
HandlersUnused ==
    /\ engine = << >>
    /\ reqs = << >>

\* pc: the engine step UpdateContainer is about to issue; issued: the steps it
\* has issued, in order; failed: the step whose error it met; fresh: the
\* container it created ("none", "created", "running"); before: the container
\* as the engine had it when UpdateContainer was called
NoUpdate ==
    [pc |-> "idle", rt |-> "none", id |-> "", issued |-> << >>, failed |-> "none",
     fresh |-> "none", res |-> "none", before |-> [state |-> "absent", last |-> "none"]]

\* pc "none": calculateCPUPercent is not under study
NoCpu == [pc |-> "none"]

\* pc "none": StreamLogs has not been called
NoLogs == [pc |-> "none"]

NoRtCall == [op |-> "none"]

\* no handler and no runtime operation has been called
ApiUnused ==
    /\ HandlersUnused
    /\ update = NoUpdate
    /\ cpu = NoCpu
    /\ rtcall = NoRtCall
    /\ logs = NoLogs

\* a scheduler as NewScheduler returns it, no runtime registered
SchedulerUnused ==
    /\ config = DefaultConfig
    /\ jobID = 0
    /\ entries = {}
    /\ cronNext = 0
    /\ cronRunning = FALSE
    /\ mu = "free"
    /\ upd = NoCall
    /\ hist = NoHist
    /\ firing = NoFiring
    /\ sweep = NoSweep

-----------------------------------------------------------------------------
(* caddy.Service: values *)

\* the container ids the service is called with
ContainerIDs == DOMAIN files

NoFile == [exists |-> FALSE, content |-> << >>]

FileTruncated(content) == [exists |-> TRUE, content |-> << >>]

File(content) == [exists |-> TRUE, content |-> content]

\* DefaultConfig().Caddy: disabled, auto-reload on
DefaultCaddyConfig == [Enabled |-> FALSE, AutoReload |-> TRUE]

CaddyConfigs == [Enabled : BOOLEAN, AutoReload : BOOLEAN]

LabelKeys == {"caddy.domain", "caddy.port", "caddy.path", "caddy.tls"}

Absent == "<absent>"

\* a label map with the given values; a key whose value is Absent is not in the map
MkLabels(domain, port, path, tls) ==
    LET ch == [k \in LabelKeys |->
                 CASE k = "caddy.domain" -> domain
                   [] k = "caddy.port" -> port
                   [] k = "caddy.path" -> path
                   [] OTHER -> tls]
    IN [k \in {x \in LabelKeys : ch[x] # Absent} |-> ch[k]]

\* label maps: the domain absent, empty or set; the port label absent or set;
\* path and TLS labels both absent or both set
LabelMaps ==
    {MkLabels(d, p, o[1], o[2]) : d \in {Absent, "", "example.com"}, p \in {Absent, "9000"},
                                  o \in {<<Absent, Absent>>, <<"/api", "off">>}}

\* models.PortMapping lists as ListContainers builds them: every port of the
\* container, HostPort 0 for a port that is exposed but not published
PortLists ==
    {<< >>,
     << [ContainerPort |-> 80, HostPort |-> 0] >>,
     << [ContainerPort |-> 80, HostPort |-> 8080] >>,
     << [ContainerPort |-> 80, HostPort |-> 0], [ContainerPort |-> 443, HostPort |-> 8443] >>}

ContainerInfos == [ID : ContainerIDs, Labels : LabelMaps, Ports : PortLists]

NoContainer == [ID |-> "", Labels |-> << >>, Ports |-> << >>]

\* a text given to SetCaddyfileContent, line by line
ManualText ==
    << <<"custom.com", "{">>, <<"reverse_proxy", "localhost:", "9000">>, <<"}">> >>

Texts == {ManualText, << >>}

\* the fragment was not last written by SetCaddyfileContent
NoSet == [set |-> FALSE, content |-> << >>, auto |-> FALSE]

\* the call before this one was not a DeleteCaddyfile that returned success
NoPrev == [ok |-> FALSE, id |-> "", enabled |-> FALSE]

\* pc .. execs describe the call; reloads, reloadRes and auto observe its Reload
\* invocations; lastSet (per id: the text SetCaddyfileContent wrote and the
\* AutoReload value it read, while no later write or removal of the fragment
\* succeeded) and prevDelete observe the calls before it
NoCaddyCall ==
    [pc |-> "idle", op |-> "none", id |-> "", rec |-> NoContainer, content |-> << >>,
     res |-> "none", out |-> {}, enabled |-> FALSE, wrote |-> FALSE, execs |-> 0,
     reloads |-> 0, reloadRes |-> "none", auto |-> FALSE,
     lastSet |-> [id \in ContainerIDs |-> NoSet], prevDelete |-> NoPrev]

\* a Service nobody has called, holding the default config and an empty directory
CaddyUnused ==
    /\ caddyCfg = DefaultCaddyConfig
    /\ files = [id \in {"c1"} |-> NoFile]
    /\ call = NoCaddyCall

-----------------------------------------------------------------------------
(* caddy.Service: operations *)

\* container.Labels[key]: the empty string for a key the map does not hold
Label(labels, key) == IF key \in DOMAIN labels THEN labels[key] ELSE ""

IsEnabledAlways == TRUE

\* s.mu.RLock(); return s.config.Enabled
IsEnabled == caddyCfg.Enabled

\* Service.UpdateConfig, called by the config hot-reload callback
Service_UpdateConfig ==
    /\ \E cfg \in CaddyConfigs : caddyCfg' = cfg
    /\ UNCHANGED <<schedVars, firing, sweep, runtimes, apiVars, files, call>>

buildWithTlsAlways(domain, port, pathPrefix, tls) ==
    << <<domain, "{">>, <<"tls", tls>>, <<"reverse_proxy", "localhost:", port>>, <<"}">> >>

\* lines of the fragment, each line the sequence of its words
buildCaddyfileContent(domain, port, pathPrefix, tls) ==
    << <<domain, "{">> >>
    \o (IF tls # "off"
        THEN IF tls = "auto" THEN << <<"tls", "internal">> >> ELSE << <<"tls", tls>> >>
        ELSE << >>)
    \o (IF pathPrefix # "/"
        THEN << <<"handle_path", pathPrefix, "*", "{">>,
                <<"reverse_proxy", "localhost:", port>>,
                <<"}">> >>
        ELSE << <<"reverse_proxy", "localhost:", port>> >>)
    \o << <<"}">> >>

\* portStr: the caddy.port label, else Sprintf("%d", container.Ports[0].HostPort)
PortStr(container) ==
    LET portStr == Label(container.Labels, "caddy.port")
    IN IF portStr = "" /\ Len(container.Ports) > 0
       THEN ToString(container.Ports[1].HostPort)
       ELSE portStr

DomainNeverMissing(domain) == FALSE

\* if domain == "": no Caddy configuration for this container
NoDomain(domain) == domain = ""

Returned(op, id, rec, res, enabled) ==
    [NoCaddyCall EXCEPT !.op = op, !.id = id, !.rec = rec, !.res = res, !.enabled = enabled,
                        !.lastSet = call.lastSet,
                        !.prevDelete = IF call.op = "Delete" /\ call.res = "ok"
                                       THEN [ok |-> TRUE, id |-> call.id,
                                             enabled |-> call.enabled]
                                       ELSE NoPrev]

\* GenerateCaddyfile up to the point where it is about to write the fragment
GenerateStart(op, container) ==
    LET domain == Label(container.Labels, "caddy.domain")
        portStr == PortStr(container)
        pathPrefix == IF Label(container.Labels, "caddy.path") = ""
                      THEN "/" ELSE Label(container.Labels, "caddy.path")
        tls == IF Label(container.Labels, "caddy.tls") = ""
               THEN "auto" ELSE Label(container.Labels, "caddy.tls")
    IN /\ call.pc = "idle"
       /\ call' = IF ~IsEnabled THEN Returned(op, container.ID, container, "ok", FALSE)
                  ELSE IF NoDomain(domain) THEN Returned(op, container.ID, container, "ok", TRUE)
                  ELSE IF portStr = ""
                       THEN Returned(op, container.ID, container, "err_no_port", TRUE)
                  ELSE [Returned(op, container.ID, container, "none", TRUE) EXCEPT
                            !.pc = "write",
                            !.content = buildCaddyfileContent(domain, portStr, pathPrefix, tls)]
       /\ UNCHANGED <<schedVars, firing, sweep, runtimes, apiVars, caddyCfg, files>>

GenerateCaddyfile == \E container \in ContainerInfos : GenerateStart("Generate", container)

\* UpdateCaddyfile: "for now, updating is the same as generating"
UpdateCaddyfile == \E container \in ContainerInfos : GenerateStart("Update", container)

SetCaddyfileContent ==
    \E id \in ContainerIDs, content \in Texts :
        /\ call.pc = "idle"
        /\ call' = IF ~IsEnabled
                   THEN Returned("Set", id, NoContainer, "err_not_enabled", FALSE)
                   ELSE [Returned("Set", id, NoContainer, "none", TRUE) EXCEPT
                            !.pc = "write", !.content = content]
        /\ UNCHANGED <<schedVars, firing, sweep, runtimes, apiVars, caddyCfg, files>>

ReloadNever == FALSE

\* if s.config.AutoReload
ReloadAfter == caddyCfg.AutoReload

\* the call after its write or removal succeeded: on to Reload, or return nil
Wrote(content) ==
    LET c == [call EXCEPT !.wrote = TRUE, !.auto = ReloadAfter,
                          !.lastSet[call.id] =
                              IF call.op = "Set"
                              THEN [set |-> TRUE, content |-> content, auto |-> ReloadAfter]
                              ELSE NoSet]
    IN IF ReloadAfter
       THEN [c EXCEPT !.pc = "reload"]
       ELSE [c EXCEPT !.pc = "idle", !.res = "ok"]

\* MkdirAll and WriteFile of the fragment, then the AutoReload test
WriteCaddyfile ==
    /\ call.pc = "write"
    /\ \E ok \in BOOLEAN :
          IF ok
          THEN /\ files' = [files EXCEPT ![call.id] = File(call.content)]
               /\ call' = Wrote(call.content)
          ELSE /\ files' = files
               /\ call' = [call EXCEPT !.pc = "idle", !.res = "err_write"]
    /\ UNCHANGED <<schedVars, firing, sweep, runtimes, apiVars, caddyCfg>>

NotExistNever(id) == FALSE

\* os.Stat(filename); os.IsNotExist(err)
NotExist(id) == ~files[id].exists

DeleteCaddyfile ==
    \E id \in ContainerIDs :
        /\ call.pc = "idle"
        /\ call' = IF ~IsEnabled
                   THEN Returned("Delete", id, NoContainer, "ok", FALSE)
                   ELSE [Returned("Delete", id, NoContainer, "none", TRUE) EXCEPT !.pc = "remove"]
        /\ UNCHANGED <<schedVars, firing, sweep, runtimes, apiVars, caddyCfg, files>>

\* os.Stat and os.Remove of the fragment, then the AutoReload test
RemoveCaddyfile ==
    /\ call.pc = "remove"
    /\ IF NotExist(call.id)
       THEN /\ files' = files
            /\ call' = [call EXCEPT !.pc = "idle", !.res = "ok"]
       ELSE \E ok \in BOOLEAN :
               IF ok
               THEN /\ files' = [files EXCEPT ![call.id] = NoFile]
                    /\ call' = Wrote(<< >>)
               ELSE /\ files' = files
                    /\ call' = [call EXCEPT !.pc = "idle", !.res = "err_delete"]
    /\ UNCHANGED <<schedVars, firing, sweep, runtimes, apiVars, caddyCfg>>

ListCaddyfiles ==
    /\ call.pc = "idle"
    /\ call' = IF ~IsEnabled
               THEN Returned("List", "", NoContainer, "ok", FALSE)
               ELSE [Returned("List", "", NoContainer, "none", TRUE) EXCEPT !.pc = "list"]
    /\ UNCHANGED <<schedVars, firing, sweep, runtimes, apiVars, caddyCfg, files>>

\* os.ReadDir: the gintainer- files of the directory
ReadDir ==
    /\ call.pc = "list"
    /\ call' = [call EXCEPT !.pc = "idle", !.res = "ok",
                            !.out = {id \in ContainerIDs : files[id].exists}]
    /\ UNCHANGED <<schedVars, firing, sweep, runtimes, apiVars, caddyCfg, files>>

GetCaddyfileContent ==
    \E id \in ContainerIDs :
        /\ call.pc = "idle"
        /\ call' = IF ~IsEnabled
                   THEN Returned("Get", id, NoContainer, "err_not_enabled", FALSE)
                   ELSE [Returned("Get", id, NoContainer, "none", TRUE) EXCEPT !.pc = "read"]
        /\ UNCHANGED <<schedVars, firing, sweep, runtimes, apiVars, caddyCfg, files>>

\* os.ReadFile of the fragment
ReadCaddyfile ==
    /\ call.pc = "read"
    /\ call' = IF files[call.id].exists
               THEN [call EXCEPT !.pc = "idle", !.res = "ok", !.content = files[call.id].content]
               ELSE [call EXCEPT !.pc = "idle", !.res = "err_read"]
    /\ UNCHANGED <<schedVars, firing, sweep, runtimes, apiVars, caddyCfg, files>>

\* Reload called directly (POST /caddy/reload): nothing when disabled, else run
\* "caddy reload"
Reload ==
    /\ call.pc = "idle"
    /\ IF ~IsEnabled
       THEN call' = Returned("Reload", "", NoContainer, "ok", FALSE)
       ELSE \E ok \in BOOLEAN :
               call' = [Returned("Reload", "", NoContainer,
                                 IF ok THEN "ok" ELSE "err_reload", TRUE) EXCEPT !.execs = 1]
    /\ UNCHANGED <<schedVars, firing, sweep, runtimes, apiVars, caddyCfg, files>>

\* return s.Reload(ctx) after a write or a removal with AutoReload set
ReloadExec ==
    /\ call.pc = "reload"
    /\ IF ~IsEnabled
       THEN call' = [call EXCEPT !.pc = "idle", !.res = "ok",
                                 !.reloads = @ + 1, !.reloadRes = "ok"]
       ELSE \E ok \in BOOLEAN :
               LET r == IF ok THEN "ok" ELSE "err_reload"
               IN call' = [call EXCEPT !.pc = "idle", !.execs = @ + 1, !.res = r,
                                       !.reloads = @ + 1, !.reloadRes = r]
    /\ UNCHANGED <<schedVars, firing, sweep, runtimes, apiVars, caddyCfg, files>>

\* NewScheduler and NewService(cfg) for any startup config, the directory empty
CaddyInit ==
    /\ config = DefaultConfig
    /\ jobID = 0
    /\ entries = {}
    /\ cronNext = 0
    /\ cronRunning = FALSE
    /\ mu = "free"
    /\ upd = NoCall
    /\ hist = NoHist
    /\ firing = NoFiring
    /\ sweep = NoSweep
    /\ runtimes = [r \in {"docker"} |-> << >>]
    /\ caddyCfg \in CaddyConfigs
    /\ files = [id \in {"c1"} |-> NoFile]
    /\ call = NoCaddyCall
    /\ ApiUnused

CaddyNext ==
    \/ Service_UpdateConfig
    \/ GenerateCaddyfile
    \/ UpdateCaddyfile
    \/ SetCaddyfileContent
    \/ WriteCaddyfile
    \/ DeleteCaddyfile
    \/ RemoveCaddyfile
    \/ ListCaddyfiles
    \/ ReadDir
    \/ GetCaddyfileContent
    \/ ReadCaddyfile
    \/ Reload
    \/ ReloadExec

CaddySpec == CaddyInit /\ [][CaddyNext]_vars

-----------------------------------------------------------------------------
(* GenerateCaddyfile as a function of the labels: every TLS mode and path prefix *)

\* caddy.tls and caddy.path labels: absent, empty, the values the code tests for
\* and other values; domains and ports as in TestBuildCaddyfileContent
RenderLabelMaps ==
    {MkLabels(d, p, path, tls) :
        d \in {"example.com", "api.example.com"},
        p \in {"8080", "9000"},
        path \in {Absent, "", "/", "/api"},
        tls \in {Absent, "", "off", "auto", "admin@example.com"}}

RenderInfos == [ID : ContainerIDs, Labels : RenderLabelMaps, Ports : {<< >>}]

RenderGenerate == \E container \in RenderInfos : GenerateStart("Generate", container)

\* an enabled Service without auto-reload, the directory empty
RenderInit ==
    /\ config = DefaultConfig
    /\ jobID = 0
    /\ entries = {}
    /\ cronNext = 0
    /\ cronRunning = FALSE
    /\ mu = "free"
    /\ upd = NoCall
    /\ hist = NoHist
    /\ firing = NoFiring
    /\ sweep = NoSweep
    /\ runtimes = [r \in {"docker"} |-> << >>]
    /\ caddyCfg = [Enabled |-> TRUE, AutoReload |-> FALSE]
    /\ files = [id \in {"c1"} |-> NoFile]
    /\ call = NoCaddyCall
    /\ ApiUnused

RenderNext ==
    \/ RenderGenerate
    \/ WriteCaddyfile

RenderSpec == RenderInit /\ [][RenderNext]_vars

-----------------------------------------------------------------------------
(* handlers.Handler: StartContainer, StopContainer, DeleteContainer *)

ReqIDs == 1..MaxRequests

\* a request that has not arrived; status is the HTTP status of the response
NoReq == [pc |-> "new", op |-> "none", force |-> FALSE, container |-> NoContainer, status |-> 0]

\* a container of the engine: running, stopped (exited) or absent; last is its
\* last completed transition
EngineContainers ==
    [state : {"running", "stopped", "absent"}, last : {"none", "start", "stop", "delete"}]

\* the runtime query parameters a request may carry
RuntimeParams == {"", "bogus", "docker"}

handlerVars == <<engine, reqs>>

otherVars == <<schedVars, firing, sweep, runtimes, caddyCfg, call, update, cpu, logs, rtcall>>

Responded(r, status) == [reqs EXCEPT ![r].pc = "done", ![r].status = status]

\* c.Param("id"), c.Query("runtime"), c.Query("force"); GetRuntime
Handler_Request(r) ==
    /\ reqs[r].pc = "new"
    /\ \E op \in {"start", "stop", "delete"}, runtimeName \in RuntimeParams, force \in BOOLEAN :
          reqs' = IF runtimeName \notin DOMAIN runtimes
                  THEN Responded(r, 400)
                  ELSE [reqs EXCEPT ![r].pc = "engine", ![r].op = op,
                                    ![r].force = force /\ op = "delete"]
    /\ UNCHANGED <<otherVars, engine, files>>

\* the engine accepts the transition: a container that is there can be started
\* and stopped (also when it already is), and removed when stopped or forced
EngineAccepts(op, force, c) ==
    /\ c.state # "absent"
    /\ op = "delete" => (c.state = "stopped" \/ force)

EngineAfter(op) ==
    [state |-> CASE op = "start" -> "running"
                 [] op = "stop" -> "stopped"
                 [] OTHER -> "absent",
     last |-> op]

\* rt.StartContainer, rt.StopContainer, rt.DeleteContainer; an error ends the
\* request with status 500
Handler_Engine(r) ==
    /\ reqs[r].pc = "engine"
    /\ \E id \in DOMAIN engine, ok \in BOOLEAN :
          IF ok /\ EngineAccepts(reqs[r].op, reqs[r].force, engine[id])
          THEN /\ engine' = [engine EXCEPT ![id] = EngineAfter(reqs[r].op)]
               /\ reqs' = [reqs EXCEPT ![r].pc = "caddy"]
          ELSE /\ engine' = engine
               /\ reqs' = Responded(r, 500)
    /\ UNCHANGED <<otherVars, files>>

\* if h.caddyService != nil && h.caddyService.IsEnabled()
Handler_IsEnabled(r) ==
    /\ reqs[r].pc = "caddy"
    /\ reqs' = IF ~IsEnabled THEN Responded(r, 200)
               ELSE [reqs EXCEPT ![r].pc = IF reqs[r].op = "start" THEN "list" ELSE "delete"]
    /\ UNCHANGED <<otherVars, engine, files>>

\* ContainerInfo of the containers the engine has, stopped ones included
Listing(rt) ==
    SelectSeq(runtimes[rt], LAMBDA c : engine[c.ID].state # "absent")

\* StartContainer: rt.ListContainers and the search for the container's record
Handler_ListContainers(r) ==
    /\ reqs[r].pc = "list"
    /\ \E id \in DOMAIN engine, ok \in BOOLEAN :
          LET found == {i \in 1..Len(Listing("docker")) : Listing("docker")[i].ID = id}
          IN reqs' = IF ok /\ found # {}
                     THEN [reqs EXCEPT ![r].pc = "generate",
                                       ![r].container = Listing("docker")[CHOOSE i \in found : TRUE]]
                     ELSE Responded(r, 200)
    /\ UNCHANGED <<otherVars, engine, files>>

\* StartContainer: h.caddyService.GenerateCaddyfile(container); its error is
\* only logged.  The file system is taken to work.
Handler_GenerateCaddyfile(r) ==
    LET container == reqs[r].container
        domain == Label(container.Labels, "caddy.domain")
        pathPrefix == IF Label(container.Labels, "caddy.path") = ""
                      THEN "/" ELSE Label(container.Labels, "caddy.path")
        tls == IF Label(container.Labels, "caddy.tls") = ""
               THEN "auto" ELSE Label(container.Labels, "caddy.tls")
    IN /\ reqs[r].pc = "generate"
       /\ files' = IF IsEnabled /\ ~NoDomain(domain) /\ PortStr(container) # ""
                   THEN [files EXCEPT ![container.ID] =
                            File(buildCaddyfileContent(domain, PortStr(container),
                                                       pathPrefix, tls))]
                   ELSE files
       /\ reqs' = Responded(r, 200)
       /\ UNCHANGED <<otherVars, engine>>

\* StopContainer, DeleteContainer: h.caddyService.DeleteCaddyfile(containerID);
\* its error is only logged.  The file system is taken to work.
Handler_DeleteCaddyfile(r) ==
    /\ reqs[r].pc = "delete"
    /\ \E id \in DOMAIN engine :
          files' = IF IsEnabled /\ ~NotExist(id)
                   THEN [files EXCEPT ![id] = NoFile]
                   ELSE files
    /\ reqs' = Responded(r, 200)
    /\ UNCHANGED <<otherVars, engine>>

\* the records ListContainers returns for the one container the requests are
\* about: with a caddy.domain label and a port label, or without labels
LifecycleLabelMaps ==
    {MkLabels("example.com", "9000", Absent, Absent), MkLabels(Absent, Absent, Absent, Absent)}

\* the integration enabled, no fragment yet, one container that runs or is stopped
LifecycleInit ==
    /\ SchedulerUnused
    /\ \E labels \in LifecycleLabelMaps :
          runtimes = [r \in {"docker"} |->
                        << [ID |-> "c1", Name |-> <<"a">>, Labels |-> labels, Ports |-> << >>] >>]
    /\ caddyCfg = [Enabled |-> TRUE, AutoReload |-> FALSE]
    /\ files = [id \in {"c1"} |-> NoFile]
    /\ call = NoCaddyCall
    /\ engine \in [{"c1"} -> {c \in EngineContainers : c.state # "absent" /\ c.last = "none"}]
    /\ reqs = [r \in ReqIDs |-> NoReq]
    /\ update = NoUpdate
    /\ cpu = NoCpu
    /\ rtcall = NoRtCall
    /\ logs = NoLogs

LifecycleNext ==
    \E r \in ReqIDs :
        \/ Handler_Request(r)
        \/ Handler_Engine(r)
        \/ Handler_IsEnabled(r)
        \/ Handler_ListContainers(r)
        \/ Handler_GenerateCaddyfile(r)
        \/ Handler_DeleteCaddyfile(r)

LifecycleSpec == LifecycleInit /\ [][LifecycleNext]_vars

-----------------------------------------------------------------------------
(* DockerRuntime.UpdateContainer and PodmanRuntime.UpdateContainer *)

\* the engine calls of UpdateContainer in the order of the source text: Inspect,
\* PullImage, Stop, DeleteContainer(force), Create, Start
StepsStopBeforePull == <<"inspect", "stop", "pull", "remove", "create", "start">>

Steps == <<"inspect", "pull", "stop", "remove", "create", "start">>

StepAfter(step) ==
    LET i == CHOOSE i \in 1..Len(Steps) : Steps[i] = step
    IN IF i < Len(Steps) THEN Steps[i + 1] ELSE "idle"

\* the runtime a container id belongs to
RuntimeOf(id) == IF id \in PodmanIDs THEN "podman" ELSE "docker"

ContinueAfterError(step) == StepAfter(step)

\* if err != nil { return ... }
AfterError(step) == "idle"

ForceRemoveIgnored == EngineAfter("stop")

\* DeleteContainer(ctx, containerID, true): the container is gone
ForceRemoved == EngineAfter("delete")

\* the engine can carry the step out: the container must be there to be
\* inspected, stopped and removed
StepPossible(step, c) ==
    step \in {"inspect", "stop", "remove"} => c.state # "absent"

\* what a successful step does to the container and to the one created for it
StepEffect(step, c) ==
    CASE step = "stop" -> EngineAfter("stop")
      [] step = "remove" -> ForceRemoved
      [] OTHER -> c

FreshAfter(step, fresh) ==
    CASE step = "create" -> "created"
      [] step = "start" -> "running"
      [] OTHER -> fresh

\* UpdateContainer(ctx, containerID) is called
UpdateContainer ==
    /\ update.pc = "idle"
    /\ \E id \in DOMAIN engine :
          update' = [NoUpdate EXCEPT !.pc = Steps[1], !.rt = RuntimeOf(id), !.id = id,
                                     !.before = engine[id]]
    /\ UNCHANGED <<schedVars, firing, sweep, runtimes, caddyVars, engine, reqs, cpu, logs, rtcall>>

\* one engine call and the test of its error
UpdateStep(step) ==
    /\ update.pc = step
    /\ \E ok \in BOOLEAN :
          IF ok /\ StepPossible(step, engine[update.id])
          THEN /\ engine' = [engine EXCEPT ![update.id] = StepEffect(step, @)]
               /\ update' = [update EXCEPT !.issued = Append(@, step),
                                           !.fresh = FreshAfter(step, @),
                                           !.pc = StepAfter(step),
                                           !.res = IF StepAfter(step) = "idle"
                                                   THEN "ok" ELSE @]
          ELSE /\ engine' = engine
               /\ update' = [update EXCEPT !.issued = Append(@, step),
                                           !.failed = step,
                                           !.pc = AfterError(step),
                                           !.res = "err_" \o step]
    /\ UNCHANGED <<schedVars, firing, sweep, runtimes, caddyVars, reqs, cpu, logs, rtcall>>

UpdateContainer_Inspect == UpdateStep("inspect")

UpdateContainer_PullImage == UpdateStep("pull")

UpdateContainer_Stop == UpdateStep("stop")

UpdateContainer_Remove == UpdateStep("remove")

UpdateContainer_Create == UpdateStep("create")

UpdateContainer_Start == UpdateStep("start")

\* two Docker containers and a Podman container, each running, stopped or gone
UpdateInit ==
    /\ SchedulerUnused
    /\ runtimes = [r \in {"docker", "podman"} |-> << >>]
    /\ CaddyUnused
    /\ engine \in [AllIDs -> {c \in EngineContainers : c.last = "none"}]
    /\ reqs = << >>
    /\ update = NoUpdate
    /\ cpu = NoCpu
    /\ rtcall = NoRtCall
    /\ logs = NoLogs

UpdateNext ==
    \/ UpdateContainer
    \/ UpdateContainer_Inspect
    \/ UpdateContainer_PullImage
    \/ UpdateContainer_Stop
    \/ UpdateContainer_Remove
    \/ UpdateContainer_Create
    \/ UpdateContainer_Start

UpdateSpec == UpdateInit /\ [][UpdateNext]_vars

-----------------------------------------------------------------------------
(* start, stop, delete and UpdateContainer on one engine, one after another *)

\* no request is between its arrival and its response, no UpdateContainer runs
Quiet ==
    /\ update.pc = "idle"
    /\ \A r \in ReqIDs : reqs[r].pc \in {"new", "done"}

\* a start, stop or delete request arrives
Fragment_Request(r) == Quiet /\ Handler_Request(r)

\* Handler.UpdateContainers (the update endpoint) or Scheduler.runUpdate (the
\* sweep) calls rt.UpdateContainer(ctx, containerID), and nothing else: no call
\* of the caddy service is made for the old or the new container
Fragment_UpdateContainer == Quiet /\ UpdateContainer

FragmentInit == LifecycleInit

FragmentNext ==
    \/ \E r \in ReqIDs :
          \/ Fragment_Request(r)
          \/ Handler_Engine(r)
          \/ Handler_IsEnabled(r)
          \/ Handler_ListContainers(r)
          \/ Handler_GenerateCaddyfile(r)
          \/ Handler_DeleteCaddyfile(r)
    \/ Fragment_UpdateContainer
    \/ UpdateContainer_Inspect
    \/ UpdateContainer_PullImage
    \/ UpdateContainer_Stop
    \/ UpdateContainer_Remove
    \/ UpdateContainer_Create
    \/ UpdateContainer_Start

FragmentSpec == FragmentInit /\ [][FragmentNext]_vars

-----------------------------------------------------------------------------
(* calculateCPUPercent *)

\* values of an unsigned counter
Counters == 0..(2 ^ CounterBits - 1)

\* a - b in the unsigned arithmetic of the counters: it wraps around
USub(a, b) == (a - b + 2 ^ CounterBits) % (2 ^ CounterBits)

\* the float64 result as a fraction num / den; the conversions to float64 and the
\* operations keep the sign and keep a non-zero quotient non-zero
calculateCPUPercent(stats) ==
    LET cpuDelta == USub(stats.TotalUsage, stats.PreTotalUsage)
        systemDelta == USub(stats.SystemUsage, stats.PreSystemUsage)
        cpuCount == stats.OnlineCPUs
    IN IF systemDelta > 0 /\ cpuDelta > 0
       THEN [num |-> cpuDelta * cpuCount * 100, den |-> systemDelta]
       ELSE [num |-> 0, den |-> 1]

\* the statistics the engine reported: current and previous counters
StatsResponses ==
    [TotalUsage : Counters, PreTotalUsage : Counters,
     SystemUsage : Counters, PreSystemUsage : Counters, OnlineCPUs : 0..MaxCPUs]

\* GetContainerStats: cpuPercent := calculateCPUPercent(&v)
GetContainerStats ==
    /\ cpu.pc = "stats"
    /\ cpu' = [cpu EXCEPT !.pc = "done", !.result = calculateCPUPercent(cpu.stats)]
    /\ UNCHANGED <<schedVars, firing, sweep, runtimes, caddyVars, engine, reqs, update, logs, rtcall>>

CpuInit ==
    /\ SchedulerUnused
    /\ runtimes = [r \in {"docker"} |-> << >>]
    /\ CaddyUnused
    /\ HandlersUnused
    /\ update = NoUpdate
    /\ \E stats \in StatsResponses :
          cpu = [pc |-> "stats", stats |-> stats, result |-> [num |-> 0, den |-> 1]]
    /\ logs = NoLogs
    /\ rtcall = NoRtCall

CpuNext == GetContainerStats

CpuSpec == CpuInit /\ [][CpuNext]_vars

-----------------------------------------------------------------------------
(* PodmanRuntime.StreamLogs *)

\* the state StreamLogs leaves when it returns the pipe's read end: both
\* channels empty, the copying goroutine at its select, containers.Logs running
\* on p.connCtx with logOpts.Follow = follow, the caller holding the read end
StreamLogsStarted ==
    [pc |-> "select", stdoutChan |-> << >>, stderrChan |-> << >>, errChan |-> << >>,
     producer |-> "running", sent |-> 0, pipe |-> << >>, cancelled |-> FALSE,
     panicked |-> FALSE, follow |-> FALSE, reader |-> "reading"]

logsFrame == <<schedVars, firing, sweep, runtimes, caddyVars, engine, reqs, update, cpu, rtcall>>

\* containers.Logs puts the next line on stdoutChan; it blocks while the buffer
\* is full
Logs_SendStdout ==
    /\ logs.pc = "select" /\ logs.producer = "running"
    /\ logs.sent < MaxLines
    /\ Len(logs.stdoutChan) < LogBufferSize
    /\ logs' = [logs EXCEPT !.sent = @ + 1, !.stdoutChan = Append(@, logs.sent + 1)]
    /\ UNCHANGED logsFrame

\* containers.Logs puts the next line on stderrChan; it blocks while the buffer
\* is full
Logs_SendStderr ==
    /\ logs.pc = "select" /\ logs.producer = "running"
    /\ logs.sent < MaxLines
    /\ Len(logs.stderrChan) < LogBufferSize
    /\ logs' = [logs EXCEPT !.sent = @ + 1, !.stderrChan = Append(@, logs.sent + 1)]
    /\ UNCHANGED logsFrame

\* containers.Logs sends on a channel the copying goroutine has closed
Logs_SendOnClosed ==
    /\ logs.pc = "closed" /\ logs.producer = "running"
    /\ logs.sent < MaxLines
    /\ logs' = [logs EXCEPT !.producer = "returned", !.panicked = TRUE]
    /\ UNCHANGED logsFrame

\* containers.Logs returns; errChan <- its result (errChan has room for it).
\* The engine ends the stream: with an error at any time, without one when the
\* container exits (Follow) or when the lines it has were all sent (no Follow).
\* The call runs on p.connCtx, so the caller's ctx does not end it.
Logs_Return ==
    /\ logs.producer = "running"
    /\ \E err \in {"nil", "error"} :
          /\ (err = "nil" /\ ~logs.follow) => logs.sent = MaxLines
          /\ logs' = [logs EXCEPT !.producer = "returned", !.errChan = Append(@, err)]
    /\ UNCHANGED logsFrame

\* pw.Write(msg + "\n"): the reader takes the line, or the write fails on a
\* closed read end and its error is dropped
pw_Write(msg) ==
    IF logs.reader = "reading" THEN Append(logs.pipe, msg) ELSE logs.pipe

\* case msg, ok := <-stdoutChan: pw.Write(msg + "\n"); the reader takes it
StreamLogs_Stdout ==
    /\ logs.pc = "select"
    /\ Len(logs.stdoutChan) > 0
    /\ logs' = [logs EXCEPT !.stdoutChan = Tail(@), !.pipe = pw_Write(Head(logs.stdoutChan))]
    /\ UNCHANGED logsFrame

\* case msg, ok := <-stderrChan: pw.Write(msg + "\n"); the reader takes it
StreamLogs_Stderr ==
    /\ logs.pc = "select"
    /\ Len(logs.stderrChan) > 0
    /\ logs' = [logs EXCEPT !.stderrChan = Tail(@), !.pipe = pw_Write(Head(logs.stderrChan))]
    /\ UNCHANGED logsFrame

\* case err := <-errChan: done = true; then the deferred close of both
\* channels and of the pipe
StreamLogs_ErrChan ==
    /\ logs.pc = "select"
    /\ Len(logs.errChan) > 0
    /\ logs' = [logs EXCEPT !.errChan = Tail(@), !.pc = "closed"]
    /\ UNCHANGED logsFrame

\* case <-ctx.Done(): done = true; then the deferred closes
StreamLogs_CtxDone ==
    /\ logs.pc = "select"
    /\ logs.cancelled
    /\ logs' = [logs EXCEPT !.pc = "closed"]
    /\ UNCHANGED logsFrame

\* the caller cancels ctx
CancelContext ==
    /\ logs.pc = "select"
    /\ ~logs.cancelled
    /\ logs' = [logs EXCEPT !.cancelled = TRUE]
    /\ UNCHANGED logsFrame

\* Handler.StreamLogs: defer logStream.Close()
CloseStream ==
    /\ logs.reader = "reading"
    /\ logs' = [logs EXCEPT !.reader = "closed"]
    /\ UNCHANGED logsFrame

LogInit ==
    /\ SchedulerUnused
    /\ runtimes = [r \in {"podman"} |-> << >>]
    /\ CaddyUnused
    /\ HandlersUnused
    /\ update = NoUpdate
    /\ cpu = NoCpu
    /\ rtcall = NoRtCall
    /\ \E follow \in BOOLEAN : logs = [StreamLogsStarted EXCEPT !.follow = follow]

LogNext ==
    \/ Logs_SendStdout
    \/ Logs_SendStderr
    \/ Logs_SendOnClosed
    \/ Logs_Return
    \/ StreamLogs_Stdout
    \/ StreamLogs_Stderr
    \/ StreamLogs_ErrChan
    \/ StreamLogs_CtxDone
    \/ CancelContext
    \/ CloseStream

LogSpec == LogInit /\ [][LogNext]_vars

-----------------------------------------------------------------------------
(* Service.getCaddyfilePath *)

\* A string that names a file is kept as its elements between separators; an
\* element is the sequence of its pieces of text, so "gintainer-a" is
\* <<"gintainer-", "a">> and the lone elements ".." and "" are <<"..">> and << >>.
\* A path is rooted or not and has its elements.
MaxSegments == 4

IdSegments == {<< >>, <<"..">>, <<"a">>, <<"gintainer-", "a">>}

\* the container ids a caller can hand to the Service: any string, so one to
\* MaxSegments elements
PathIDs == UNION {[1..n -> IdSegments] : n \in 1..MaxSegments}

\* "/etc/caddy/conf.d" (DefaultConfig) and the relative "conf.d"
FragmentDirs ==
    {[abs |-> TRUE, segs |-> <<<<"etc">>, <<"caddy">>, <<"conf.d">>>>],
     [abs |-> FALSE, segs |-> <<<<"conf.d">>>>]}

\* fmt.Sprintf("gintainer-%s.caddy", containerID), as elements
Sprintf_gintainer(containerID) ==
    LET n == Len(containerID)
    IN IF n = 1 THEN <<<<"gintainer-">> \o containerID[1] \o <<".caddy">>>>
       ELSE <<<<"gintainer-">> \o containerID[1]>>
                \o SubSeq(containerID, 2, n - 1)
                \o <<containerID[n] \o <<".caddy">>>>

\* filepath.Clean on the elements: empty and "." elements go, ".." removes the
\* element before it, or stays at the front of a path that is not rooted
RECURSIVE Clean(_, _, _)
Clean(abs, segs, out) ==
    IF segs = << >> THEN out
    ELSE LET s == Head(segs)
             next == CASE s = << >> \/ s = <<".">> -> out
                       [] s = <<"..">> ->
                            IF out # << >> /\ out[Len(out)] # <<"..">>
                            THEN SubSeq(out, 1, Len(out) - 1)
                            ELSE IF abs THEN out ELSE Append(out, s)
                       [] OTHER -> Append(out, s)
         IN Clean(abs, Tail(segs), next)

\* filepath.Join(dir, name)
filepath_Join(dir, name) ==
    [abs |-> dir.abs, segs |-> Clean(dir.abs, dir.segs \o name, << >>)]

\* s.mu.RLock(); filepath.Join(s.config.CaddyfilePath, Sprintf(...))
getCaddyfilePath(containerID) ==
    filepath_Join(caddyCfg.CaddyfilePath, Sprintf_gintainer(containerID))

\* SetCaddyfileContent, DeleteCaddyfile and GetCaddyfileContent: each takes
\* filename := s.getCaddyfilePath(containerID) and hands it to os.WriteFile,
\* os.Remove or os.ReadFile
Service_FileOp ==
    \E op \in {"WriteFile", "Remove", "ReadFile"}, containerID \in PathIDs :
        /\ call' = [op |-> op, id |-> containerID, path |-> getCaddyfilePath(containerID)]
        /\ UNCHANGED <<schedVars, firing, sweep, runtimes, apiVars, caddyCfg, files>>

PathInit ==
    /\ SchedulerUnused
    /\ runtimes = << >>
    /\ \E dir \in FragmentDirs :
          caddyCfg = [Enabled |-> TRUE, AutoReload |-> FALSE, CaddyfilePath |-> dir]
    /\ files = [id \in {"c1"} |-> NoFile]
    /\ call = [op |-> "none", id |-> << >>, path |-> << >>]
    /\ ApiUnused

PathNext == Service_FileOp

PathSpec == PathInit /\ [][PathNext]_vars

-----------------------------------------------------------------------------
(* caddy.Service: s.mu and the reads of s.config *)

\* In this part `call` also carries s.mu ("free", or "W" while UpdateConfig
\* holds it), the UpdateConfig in progress, and what the reading call has left
\* to read. A read under s.mu.RLock() is one step that waits for the writer.
LockedConfigs == [Enabled : BOOLEAN, AutoReload : BOOLEAN, UseSudo : BOOLEAN]

ServiceReaders ==
    {"GenerateCaddyfile", "DeleteCaddyfile", "SetCaddyfileContent", "ListCaddyfiles", "Reload"}

\* the reads of Reload: IsEnabled, then UseSudo and CaddyBinaryPath in one
\* RLock section
ReloadReads == <<"Enabled", "UseSudo">>

\* the fields of s.config an operation reads, in order: IsEnabled, then
\* getCaddyfilePath or s.config.CaddyfilePath, then s.config.AutoReload
ConfigReads(op) ==
    IF op = "Reload" THEN ReloadReads
    ELSE IF op = "ListCaddyfiles" THEN <<"Enabled", "CaddyfilePath">>
    ELSE <<"Enabled", "CaddyfilePath", "AutoReload">>

\* whether the read of the field sits between s.mu.RLock() and s.mu.RUnlock():
\* IsEnabled, getCaddyfilePath, ListCaddyfiles and Reload lock; the
\* 'if s.config.AutoReload' of the three writing operations does not
RLocked(field) == field # "AutoReload"

NoServiceRead ==
    [mu |-> "free", writer |-> [pc |-> "idle", cfg |-> DefaultCaddyConfig],
     op |-> "none", todo |-> << >>, field |-> "none", val |-> FALSE, raced |-> FALSE]

lockFrame == <<schedVars, firing, sweep, runtimes, apiVars, files>>

\* UpdateConfig: s.mu.Lock()
Service_UpdateConfig_Lock ==
    /\ call.mu = "free"
    /\ \E cfg \in LockedConfigs :
          call' = [call EXCEPT !.mu = "W", !.writer = [pc |-> "locked", cfg |-> cfg]]
    /\ UNCHANGED <<lockFrame, caddyCfg>>

\* UpdateConfig: s.config = cfg; s.mu.Unlock()
Service_UpdateConfig_Store ==
    /\ call.mu = "W"
    /\ caddyCfg' = call.writer.cfg
    /\ call' = [call EXCEPT !.mu = "free", !.writer.pc = "idle"]
    /\ UNCHANGED lockFrame

\* one of the five operations is called
Service_Enter ==
    /\ call.todo = << >>
    /\ \E op \in ServiceReaders :
          call' = [call EXCEPT !.op = op, !.todo = ConfigReads(op), !.field = "none",
                               !.raced = FALSE]
    /\ UNCHANGED <<lockFrame, caddyCfg>>

\* the value a read of s.config.<field> gives: under the read lock the stored
\* one; beside a writer that holds s.mu the old or the new one
ReadValues(field) ==
    LET of(cfg) == IF field = "CaddyfilePath" THEN TRUE ELSE cfg[field]
    IN IF call.mu = "W" THEN {of(caddyCfg), of(call.writer.cfg)} ELSE {of(caddyCfg)}

\* the call's next read of s.config; it returns early when integration is off
\* or nothing was written, and goes on into Reload when AutoReload is set
Service_ReadConfig ==
    /\ call.todo # << >>
    /\ LET field == Head(call.todo)
       IN /\ RLocked(field) => call.mu = "free"
          /\ \E val \in ReadValues(field), goesOn \in BOOLEAN :
                call' = [call EXCEPT
                            !.field = field, !.val = val, !.raced = (call.mu = "W"),
                            !.todo = IF field = "Enabled" /\ ~val THEN << >>
                                     ELSE IF field = "CaddyfilePath" /\ ~goesOn THEN << >>
                                     ELSE IF field = "AutoReload" /\ val THEN ReloadReads
                                     ELSE Tail(@)]
    /\ UNCHANGED <<lockFrame, caddyCfg>>

LockInit ==
    /\ SchedulerUnused
    /\ runtimes = << >>
    /\ caddyCfg \in LockedConfigs
    /\ files = [id \in {"c1"} |-> NoFile]
    /\ call = NoServiceRead
    /\ ApiUnused

LockNext ==
    \/ Service_UpdateConfig_Lock
    \/ Service_UpdateConfig_Store
    \/ Service_Enter
    \/ Service_ReadConfig

LockSpec == LockInit /\ [][LockNext]_vars

-----------------------------------------------------------------------------
(* DockerRuntime: the operations Docker does not support *)

DockerLabelSets == {MkLabels(d, p, Absent, Absent) : d \in {Absent, "example.com"},
                                                     p \in {Absent, "8080"}}

\* a container the engine holds with its labels, or one it does not hold
LabelledContainers ==
    {[state |-> "absent", labels |-> << >>]}
        \cup {[state |-> "running", labels |-> l] : l \in DockerLabelSets}

PodIDs == {"pod1", "pod2"}

labelVars == <<schedVars, firing, sweep, runtimes, caddyVars, reqs, update, cpu, logs>>

LabelsMerged(old, labels) ==
    [k \in (DOMAIN old) \cup (DOMAIN labels) |->
        IF k \in DOMAIN labels THEN labels[k] ELSE old[k]]

\* what SetContainerLabels leaves of the container's labels: it only inspects
\* the container and logs
Docker_LabelsAfterSet(old, labels) == old

\* what RemoveContainerLabels leaves of the container's labels
Docker_LabelsAfterRemove(old, labelKeys) == old

\* d.client.ContainerInspect: fails on a container the engine does not hold,
\* and may fail on any other
ContainerInspect(id, ok) == ok /\ engine[id].state # "absent"

\* inspect, then return fmt.Errorf("Docker does not support updating labels ...")
Docker_SetContainerLabels ==
    \E id \in DockerIDs, labels \in DockerLabelSets, ok \in BOOLEAN :
        /\ rtcall' = [op |-> "SetContainerLabels", id |-> id, labels |-> labels,
                      res |-> IF ContainerInspect(id, ok) THEN "not supported"
                              ELSE "failed to inspect container"]
        /\ engine' = [engine EXCEPT ![id].labels = Docker_LabelsAfterSet(@, labels)]
        /\ UNCHANGED labelVars

\* inspect, then return fmt.Errorf("Docker does not support removing labels ...")
Docker_RemoveContainerLabels ==
    \E id \in DockerIDs, labelKeys \in SUBSET {"caddy.domain", "caddy.port"}, ok \in BOOLEAN :
        /\ rtcall' = [op |-> "RemoveContainerLabels", id |-> id, labels |-> labelKeys,
                      res |-> IF ContainerInspect(id, ok) THEN "not supported"
                              ELSE "failed to inspect container"]
        /\ engine' = [engine EXCEPT ![id].labels = Docker_LabelsAfterRemove(@, labelKeys)]
        /\ UNCHANGED labelVars

\* DeletePod, StartPod, StopPod, RestartPod:
\* return fmt.Errorf("Docker does not support pods")
Docker_PodOp ==
    \E op \in {"DeletePod", "StartPod", "StopPod", "RestartPod"}, podID \in PodIDs :
        /\ rtcall' = [op |-> op, id |-> podID, labels |-> << >>, res |-> "no pods"]
        /\ UNCHANGED <<labelVars, engine>>

DockerInit ==
    /\ SchedulerUnused
    /\ runtimes = [r \in {"docker"} |-> << >>]
    /\ CaddyUnused
    /\ engine \in [DockerIDs -> LabelledContainers]
    /\ reqs = << >>
    /\ update = NoUpdate
    /\ cpu = NoCpu
    /\ logs = NoLogs
    /\ rtcall = NoRtCall

DockerNext ==
    \/ Docker_SetContainerLabels
    \/ Docker_RemoveContainerLabels
    \/ Docker_PodOp

DockerSpec == DockerInit /\ [][DockerNext]_vars

-----------------------------------------------------------------------------
(* RunContainer, Docker and Podman side by side *)

RunRuntimes == {"docker", "podman"}

\* what the engine answers to the calls of one RunContainer: create and start
EngineOutcomes == [create : BOOLEAN, start : BOOLEAN]

\* the containers an engine holds before the call
ContainersBefore == {{}, {[id |-> "old", name |-> "web", state |-> "running"]}}

\* the engine refuses a name another container has
NameTaken(rt) == rtcall.name # "" /\ \E c \in engine[rt] : c.name = rtcall.name

Created == [id |-> "new", name |-> rtcall.name, state |-> "created"]

runVars == <<schedVars, firing, sweep, runtimes, caddyVars, reqs, update, cpu, logs>>

RunAt(rt, pc) == rtcall.op = "RunContainer" /\ rtcall.pc[rt] = pc

\* ContainerCreate / containers.CreateWithSpec, and the return on its error
RunContainer_Create(rt) ==
    /\ RunAt(rt, "create")
    /\ IF rtcall.outcomes.create /\ ~NameTaken(rt)
       THEN /\ engine' = [engine EXCEPT ![rt] = @ \cup {Created}]
            /\ rtcall' = [rtcall EXCEPT !.pc[rt] = "start"]
       ELSE /\ rtcall' = [rtcall EXCEPT !.pc[rt] = "done",
                                        !.res[rt] = "failed to create container"]
            /\ UNCHANGED engine
    /\ UNCHANGED runVars

Started(containers) ==
    (containers \ {Created}) \cup {[Created EXCEPT !.state = "running"]}

\* DockerRuntime: ContainerStart(ctx, resp.ID); on its error return at once
Docker_RunContainer_Start ==
    /\ RunAt("docker", "start")
    /\ IF rtcall.outcomes.start
       THEN /\ engine' = [engine EXCEPT !["docker"] = Started(@)]
            /\ rtcall' = [rtcall EXCEPT !.pc["docker"] = "done", !.res["docker"] = "new"]
       ELSE /\ rtcall' = [rtcall EXCEPT !.pc["docker"] = "done",
                                        !.res["docker"] = "failed to start container"]
            /\ UNCHANGED engine
    /\ UNCHANGED runVars

\* PodmanRuntime: containers.Start(p.connCtx, createResp.ID); on its error go
\* on to remove the container
Podman_RunContainer_Start ==
    /\ RunAt("podman", "start")
    /\ IF rtcall.outcomes.start
       THEN /\ engine' = [engine EXCEPT !["podman"] = Started(@)]
            /\ rtcall' = [rtcall EXCEPT !.pc["podman"] = "done", !.res["podman"] = "new"]
       ELSE /\ rtcall' = [rtcall EXCEPT !.pc["podman"] = "remove"]
            /\ UNCHANGED engine
    /\ UNCHANGED runVars

\* PodmanRuntime: containers.Remove(..., WithForce(true)); its error is only
\* logged; return the start error
Podman_RunContainer_Remove ==
    /\ RunAt("podman", "remove")
    /\ \E removed \in BOOLEAN :
          engine' = [engine EXCEPT !["podman"] =
                        IF removed THEN @ \ {Created} ELSE @]
    /\ rtcall' = [rtcall EXCEPT !.pc["podman"] = "done",
                                !.res["podman"] = "failed to start container"]
    /\ UNCHANGED runVars

RunInit ==
    /\ SchedulerUnused
    /\ runtimes = [r \in RunRuntimes |-> << >>]
    /\ CaddyUnused
    /\ \E before \in ContainersBefore : engine = [rt \in RunRuntimes |-> before]
    /\ reqs = << >>
    /\ update = NoUpdate
    /\ cpu = NoCpu
    /\ logs = NoLogs
    /\ \E outcomes \in EngineOutcomes, name \in {"", "web"} :
          rtcall = [op |-> "RunContainer", name |-> name, outcomes |-> outcomes,
                    pc |-> [rt \in RunRuntimes |-> "create"],
                    res |-> [rt \in RunRuntimes |-> "none"]]

RunNext ==
    \/ \E rt \in RunRuntimes : RunContainer_Create(rt)
    \/ Docker_RunContainer_Start
    \/ Podman_RunContainer_Start
    \/ Podman_RunContainer_Remove

RunSpec == RunInit /\ [][RunNext]_vars

-----------------------------------------------------------------------------
(* NewPodmanRuntime *)

Unix(path) == [scheme |-> "unix://", path |-> path]

\* os.Getuid() is taken as 1000
DefaultSockets ==
    <<Unix("/run/podman/podman.sock"), Unix("/var/run/podman/podman.sock"),
      Unix("/run/user/1000/podman/podman.sock"), Unix("/var/run/docker.sock")>>

\* os.Getenv("PODMAN_SOCKET"): unset or empty, a bare path, a unix:// address,
\* or the primary default again
NoSocketEnv == [scheme |-> "", path |-> ""]

SocketEnvs ==
    {NoSocketEnv, [scheme |-> "", path |-> "/tmp/p.sock"], Unix("/tmp/p.sock"),
     [scheme |-> "", path |-> "/run/podman/podman.sock"]}

SocketFiles == {DefaultSockets[i].path : i \in 1..Len(DefaultSockets)} \cup {"/tmp/p.sock"}

\* if !strings.HasPrefix(customSocket, "unix://") { customSocket = "unix://" + customSocket }
WithUnixPrefix(customSocket) ==
    IF customSocket.scheme = "unix://" THEN customSocket ELSE Unix(customSocket.path)

\* socketPaths, the custom socket prepended when PODMAN_SOCKET is not empty
socketPaths(customSocket) ==
    IF customSocket # NoSocketEnv
    THEN <<WithUnixPrefix(customSocket)>> \o DefaultSockets
    ELSE DefaultSockets

\* var connCtx context.Context
nilCtx == [scheme |-> "nil", path |-> ""]

RetryFirstCandidate == rtcall.socketPaths[1]

\* the socket of the attempt after the loop: "unix:///run/podman/podman.sock"
RetrySocket == DefaultSockets[1]

connVars == <<schedVars, firing, sweep, runtimes, caddyVars, reqs, update, cpu, logs>>

\* one turn of the loop: bindings.NewConnection(baseCtx, socketPath); break on
\* success. A socket connects when a service listens on it.
NewPodmanRuntime_Attempt ==
    /\ rtcall.op = "NewPodmanRuntime" /\ rtcall.pc = "loop"
    /\ LET i == Len(rtcall.tried) + 1
           socketPath == rtcall.socketPaths[i]
           ok == socketPath.path \in engine.listening
       IN rtcall' = [rtcall EXCEPT
                        !.tried = Append(@, <<socketPath, ok>>),
                        !.connCtx = IF ok THEN socketPath ELSE @,
                        !.pc = IF ok THEN "return"
                               ELSE IF i = Len(rtcall.socketPaths) THEN "LookPath"
                               ELSE "loop"]
    /\ UNCHANGED <<connVars, engine>>

\* if connCtx == nil: exec.LookPath("podman")
NewPodmanRuntime_LookPath ==
    /\ rtcall.op = "NewPodmanRuntime" /\ rtcall.pc = "LookPath"
    /\ rtcall' = [rtcall EXCEPT
                     !.cli = IF engine.cli THEN "found" ELSE "not found",
                     !.pc = IF engine.cli THEN "retry" ELSE "done",
                     !.res = IF engine.cli THEN @ ELSE "podman not found in PATH"]
    /\ UNCHANGED <<connVars, engine>>

\* the one more attempt on the default socket; the service may have come up
\* since the loop tried it
NewPodmanRuntime_Retry ==
    /\ rtcall.op = "NewPodmanRuntime" /\ rtcall.pc = "retry"
    /\ \E ok \in BOOLEAN :
          rtcall' = [rtcall EXCEPT
                        !.tried = Append(@, <<RetrySocket, ok>>),
                        !.connCtx = IF ok THEN RetrySocket ELSE @,
                        !.pc = IF ok THEN "return" ELSE "done",
                        !.res = IF ok THEN @ ELSE "unable to connect to Podman socket"]
    /\ UNCHANGED <<connVars, engine>>

\* return &PodmanRuntime{connCtx: connCtx}, nil
NewPodmanRuntime_Return ==
    /\ rtcall.op = "NewPodmanRuntime" /\ rtcall.pc = "return"
    /\ rtcall' = [rtcall EXCEPT !.pc = "done", !.res = "nil"]
    /\ UNCHANGED <<connVars, engine>>

ConnInit ==
    /\ SchedulerUnused
    /\ runtimes = << >>
    /\ CaddyUnused
    /\ \E listening \in SUBSET SocketFiles, cli \in BOOLEAN :
          engine = [listening |-> listening, cli |-> cli]
    /\ reqs = << >>
    /\ update = NoUpdate
    /\ cpu = NoCpu
    /\ logs = NoLogs
    /\ \E customSocket \in SocketEnvs :
          rtcall = [op |-> "NewPodmanRuntime", pc |-> "loop",
                    socketPaths |-> socketPaths(customSocket), tried |-> << >>,
                    connCtx |-> nilCtx, cli |-> "not looked for", res |-> "none"]

ConnNext ==
    \/ NewPodmanRuntime_Attempt
    \/ NewPodmanRuntime_LookPath
    \/ NewPodmanRuntime_Retry
    \/ NewPodmanRuntime_Return

ConnSpec == ConnInit /\ [][ConnNext]_vars

-----------------------------------------------------------------------------
(* matchesFilter and its helpers *)

containsMiddle(s, substr) ==
    \E i \in 0..(Len(s) - Len(substr)) : SubSeq(s, i + 1, i + Len(substr)) = substr

contains(s, substr) ==
    /\ Len(s) >= Len(substr)
    /\ \/ s = substr
       \/ /\ Len(s) > Len(substr)
          /\ \/ SubSeq(s, 1, Len(substr)) = substr
             \/ SubSeq(s, Len(s) - Len(substr) + 1, Len(s)) = substr
             \/ containsMiddle(s, substr)

matchesFilterEqualOnly(name, pattern) ==
    Len(pattern) = 0 \/ name = pattern

matchesFilter(name, pattern) ==
    Len(pattern) = 0 \/ name = pattern \/ contains(name, pattern)

\* the filter loop of runUpdate: with filters, update only on a match
shouldUpdate(name, filters) ==
    Len(filters) > 0 => \E i \in 1..Len(filters) : matchesFilter(name, filters[i])

-----------------------------------------------------------------------------
(* Scheduler.UpdateConfig, in the three steps it takes under s.mu *)

RemoveJobForgotten(es, id) == es

\* s.cron.Remove(s.jobID) when a job is registered
RemoveJob(es, id) == IF id # 0 THEN {e \in es : e.id # id} ELSE es

NewConfigOnlyWhenEnabled(old, cfg) == IF cfg.Enabled THEN cfg ELSE old

\* s.config = &config
NewConfig(old, cfg) == cfg

NeedsJobAlways(cfg) == TRUE

\* if config.Enabled
NeedsJob(cfg) == cfg.Enabled

\* s.mu.Lock(); remove the existing job, if any
UpdateConfig_Lock ==
    \E caller \in Callers, cfg \in Configs :
        /\ upd.pc = "idle"
        /\ mu = "free"
        /\ hist.calls < MaxUpdates
        /\ mu' = "W"
        /\ entries' = RemoveJob(entries, jobID)
        /\ jobID' = 0
        /\ upd' = [pc |-> "store", cfg |-> cfg, caller |-> caller]
        /\ hist' = [hist EXCEPT !.calls = @ + 1, !.res = "none",
                                !.preConfig = config, !.preEntries = entries]
        /\ UNCHANGED <<config, cronNext, cronRunning, firing, sweep, runtimes, apiVars, caddyVars>>

\* s.config = &config
UpdateConfig_Store ==
    /\ upd.pc = "store"
    /\ config' = NewConfig(config, upd.cfg)
    /\ upd' = [upd EXCEPT !.pc = "add"]
    /\ UNCHANGED <<jobID, entries, cronNext, cronRunning, mu, hist, firing, sweep, runtimes, apiVars, caddyVars>>

\* AddFunc when enabled; return and release s.mu
UpdateConfig_Add ==
    /\ upd.pc = "add"
    /\ LET cfg == upd.cfg
           ok == ~NeedsJob(cfg) \/ ParseStandard(cfg.Schedule)
           armed == NeedsJob(cfg) /\ ok
       IN /\ IF armed
                THEN /\ cronNext' = cronNext + 1
                     /\ entries' = entries \cup {[id |-> cronNext + 1, schedule |-> cfg.Schedule]}
                     /\ jobID' = cronNext + 1
                ELSE UNCHANGED <<cronNext, entries, jobID>>
          /\ hist' = [hist EXCEPT !.res = IF ok THEN "ok" ELSE "error",
                                  !.lastCfg = cfg,
                                  !.lastCaller = upd.caller,
                                  !.allOk = @ /\ ok,
                                  !.twoArmed = hist.prevArmed /\ cfg.Enabled /\ ok,
                                  !.prevArmed = cfg.Enabled /\ ok,
                                  !.callersDone = @ \cup {upd.caller}]
    /\ upd' = NoCall
    /\ mu' = "free"
    /\ UNCHANGED <<config, cronRunning, firing, sweep, runtimes, apiVars, caddyVars>>

\* s.mu.RLock(); return *s.config
GetConfig == config

\* Scheduler.Start
Start ==
    /\ ~cronRunning
    /\ cronRunning' = TRUE
    /\ UNCHANGED <<config, jobID, entries, cronNext, mu, upd, hist, firing, sweep, runtimes, apiVars, caddyVars>>

-----------------------------------------------------------------------------
(* The cron run loop and Scheduler.runUpdate *)

\* the run loop of a started cron finds the registered entry due and spawns its job
Tick ==
    /\ cronRunning
    /\ entries # {}
    /\ firing.pc = "idle"
    /\ firing' = [firing EXCEPT !.pc = "spawned", !.spawnedAt = hist.calls]
    /\ UNCHANGED <<schedVars, sweep, runtimes, apiVars, caddyVars>>

RLockIgnoresWriter(m) == TRUE

\* s.mu.RLock() succeeds only while no writer holds s.mu
CanRLock(m) == m = "free"

\* s.mu.RLock(); config := *s.config; s.mu.RUnlock()
runUpdate_Snapshot ==
    /\ firing.pc = "spawned"
    /\ CanRLock(mu)
    /\ firing' = [firing EXCEPT !.pc = "sweep", !.snapshot = config,
                                !.expect = hist.lastCfg,
                                !.midUpdate = (upd.pc # "idle"),
                                !.startedAt = hist.calls]
    /\ sweep' = [NoSweep EXCEPT !.todo = DOMAIN runtimes]
    /\ UNCHANGED <<schedVars, runtimes, apiVars, caddyVars>>

AbortOnListError(rest) == {}

\* a failed ListContainers is logged and the loop continues with the other runtimes
AfterListError(rest) == rest

\* next runtime of GetAllRuntimes() (Go map order: any); rt.ListContainers
runUpdate_List ==
    /\ firing.pc = "sweep"
    /\ sweep.cur = "none"
    /\ \E r \in sweep.todo, ok \in BOOLEAN :
          IF ok
          THEN sweep' = [sweep EXCEPT !.todo = @ \ {r},
                                      !.listed = @ \cup {r},
                                      !.cur = IF Len(runtimes[r]) > 0 THEN r ELSE "none",
                                      !.idx = 1]
          ELSE sweep' = [sweep EXCEPT !.todo = AfterListError(@ \ {r}),
                                      !.listFailed = @ \cup {r}]
    /\ UNCHANGED <<schedVars, firing, runtimes, apiVars, caddyVars>>

\* one iteration of "for _, container := range containers"
runUpdate_Container ==
    /\ firing.pc = "sweep"
    /\ sweep.cur # "none"
    /\ LET list == runtimes[sweep.cur]
           c == list[sweep.idx]
           next == [sweep EXCEPT !.idx = @ + 1,
                                 !.cur = IF sweep.idx < Len(list) THEN @ ELSE "none"]
       IN IF shouldUpdate(c.Name, firing.snapshot.Filters)
          THEN \E ok \in BOOLEAN :
                  sweep' = [next EXCEPT !.calls[c.ID] = @ + 1,
                                        !.updFailed = IF ok THEN @ ELSE @ \cup {c.ID}]
          ELSE sweep' = next
    /\ UNCHANGED <<schedVars, firing, runtimes, apiVars, caddyVars>>

\* all runtimes visited: "Scheduled container update completed", the job returns
runUpdate_Return ==
    /\ firing.pc = "sweep"
    /\ sweep.cur = "none"
    /\ sweep.todo = {}
    /\ firing' = [firing EXCEPT !.pc = "idle"]
    /\ sweep' = [sweep EXCEPT !.complete = TRUE]
    /\ UNCHANGED <<schedVars, runtimes, apiVars, caddyVars>>

runUpdate == runUpdate_Snapshot \/ runUpdate_List \/ runUpdate_Container \/ runUpdate_Return

-----------------------------------------------------------------------------
(* Specification of the scheduler: reconfiguration against a running cron *)

\* NewScheduler, with one engine registered that holds one container
SchedInit ==
    /\ config = DefaultConfig
    /\ jobID = 0
    /\ entries = {}
    /\ cronNext = 0
    /\ cronRunning = FALSE
    /\ mu = "free"
    /\ upd = NoCall
    /\ hist = NoHist
    /\ firing = NoFiring
    /\ sweep = NoSweep
    /\ CaddyUnused
    /\ ApiUnused
    /\ runtimes = [r \in {"docker"} |-> << [ID |-> "d1", Name |-> <<"a", "b">>] >>]

SchedNext ==
    \/ UpdateConfig_Lock
    \/ UpdateConfig_Store
    \/ UpdateConfig_Add
    \/ Start
    \/ Tick
    \/ runUpdate_Snapshot
    \/ runUpdate_List
    \/ runUpdate_Container
    \/ runUpdate_Return

SchedSpec == SchedInit /\ [][SchedNext]_vars

-----------------------------------------------------------------------------
(* Specification of one armed scheduler sweeping two engines *)

\* container names: "ab", "a", "ba*", "c"
SweepNames == {<<"a", "b">>, <<"a">>, <<"b", "a", "*">>, <<"c">>}

\* filter lists: none, ["a*"], ["ab", "c"], [""], ["a"]
SweepFilterLists ==
    {<< >>, << <<"a", "*">> >>, << <<"a", "b">>, <<"c">> >>, << << >> >>, << <<"a">> >>}

\* the state after NewScheduler, one successful UpdateConfig with enabled=true
\* and Start, with docker holding two containers and podman one
SweepInit ==
    /\ config \in [Schedule : {DefaultSchedule}, Enabled : {TRUE}, Filters : SweepFilterLists]
    /\ jobID = 1
    /\ entries = {[id |-> 1, schedule |-> DefaultSchedule]}
    /\ cronNext = 1
    /\ cronRunning = TRUE
    /\ mu = "free"
    /\ upd = NoCall
    /\ hist = [NoHist EXCEPT !.calls = 1, !.res = "ok", !.lastCfg = config,
                             !.lastCaller = "http", !.prevArmed = TRUE,
                             !.callersDone = {"http"}]
    /\ firing = NoFiring
    /\ sweep = NoSweep
    /\ CaddyUnused
    /\ ApiUnused
    /\ \E n1 \in SweepNames, n2 \in SweepNames, n3 \in SweepNames :
          runtimes = [r \in {"docker", "podman"} |->
                        IF r = "docker"
                        THEN << [ID |-> "d1", Name |-> n1], [ID |-> "d2", Name |-> n2] >>
                        ELSE << [ID |-> "p1", Name |-> n3] >>]

SweepNext ==
    \/ Tick
    \/ runUpdate_Snapshot
    \/ runUpdate_List
    \/ runUpdate_Container
    \/ runUpdate_Return

SweepSpec == SweepInit /\ [][SweepNext]_vars

-----------------------------------------------------------------------------
(* Claims about Scheduler.UpdateConfig and GetConfig (SchedSpec) *)

CallReturned == upd.pc = "idle" /\ hist.calls > 0

\* C1: UpdateConfig with enabled=true and an invalid cron expression returns an
\* error and leaves the scheduler as it was before the call: the registered
\* trigger is still registered and GetConfig still returns the previous config.
C1_InvalidCronLeavesSchedulerUntouched ==
    (CallReturned /\ hist.lastCfg.Enabled /\ ~ParseStandard(hist.lastCfg.Schedule))
        => /\ hist.res = "error"
           /\ entries = hist.preEntries
           /\ GetConfig = hist.preConfig

\* C2 as stated: UpdateConfig returns an error for every config whose schedule is
\* not a valid cron expression, whatever its enabled flag.
C2_InvalidScheduleAlwaysFails ==
    (CallReturned /\ ~ParseStandard(hist.lastCfg.Schedule)) => hist.res = "error"

\* C2 as amended: UpdateConfig returns an error exactly for the configs that are
\* enabled and whose schedule is not a valid cron expression; a disabled config is
\* accepted whatever its schedule, and the filter list never decides.
C2_FailsIffEnabledAndInvalid ==
    CallReturned =>
        (hist.res = "error" <=>
            (hist.lastCfg.Enabled /\ ~ParseStandard(hist.lastCfg.Schedule)))

C2_Witness ==
    /\ CallReturned
    /\ hist.res = "error"
    /\ hist.lastCfg.Filters # << >>
    /\ hist.calls = 2
    /\ hist.prevArmed = FALSE

\* C3: after any sequence of UpdateConfig calls, from either caller, failed or
\* not, and at every step inside a call, the cron instance holds at most one
\* registered update-job entry.
C3_AtMostOneEntry == Cardinality(entries) <= 1

C3_Witness ==
    /\ CallReturned
    /\ hist.twoArmed
    /\ hist.callersDone = Callers
    /\ Cardinality(entries) = 1
    /\ jobID = 2

\* C4: after construction and successful UpdateConfig calls only, GetConfig
\* returns the last config passed (the default if none was), and a trigger is
\* registered iff that config is enabled.
C4_ConfigAndTriggerFollowLastCall ==
    (hist.allOk /\ upd.pc = "idle")
        => /\ GetConfig = hist.lastCfg
           /\ (entries # {}) <=> hist.lastCfg.Enabled
           /\ (hist.calls = 0 => GetConfig = DefaultConfig)

C4_Witness ==
    /\ hist.allOk
    /\ upd.pc = "idle"
    /\ hist.calls = 2
    /\ GetConfig.Enabled
    /\ GetConfig.Schedule = OtherSchedule
    /\ GetConfig.Filters # << >>
    /\ entries # {}

\* C5: a firing takes its config snapshot only while no UpdateConfig is under
\* way, the snapshot is a complete config that was passed to UpdateConfig (or
\* the default), and it is the config of the latest UpdateConfig that had
\* returned when the firing started, so its filter list is never an older one.
C5_FiringSeesNoHalfUpdate ==
    firing.pc = "sweep"
        => /\ ~firing.midUpdate
           /\ firing.snapshot \in Configs \cup {DefaultConfig}
           /\ firing.snapshot = firing.expect
           /\ firing.snapshot.Filters = firing.expect.Filters

\* a firing spawned before an UpdateConfig that changed the filters, started after it
C5_Witness ==
    /\ firing.pc = "sweep"
    /\ firing.spawnedAt < firing.startedAt
    /\ hist.calls = firing.startedAt
    /\ upd.pc = "idle"
    /\ firing.snapshot.Filters # hist.preConfig.Filters
    /\ firing.snapshot.Filters = hist.lastCfg.Filters

-----------------------------------------------------------------------------
(* Claims about one sweep (SweepSpec) *)

\* p occurs in s as a contiguous run of characters
IsSubstring(p, s) ==
    \E i \in 1..(Len(s) - Len(p) + 1) : SubSeq(s, i, i + Len(p) - 1) = p

\* the containers a sweep has listed, with the runtime that listed them
ListedContainers ==
    UNION {{[rt |-> r, c |-> runtimes[r][i]] : i \in 1..Len(runtimes[r])} : r \in sweep.listed}

Updated(id) == sweep.calls[id] > 0

\* C6 as stated: with a non-empty filter list the sweep updates a listed
\* container iff some pattern is a substring of its name or its name is a
\* substring of some pattern; with an empty list every listed container.
C6_SubstringEitherDirection ==
    sweep.complete =>
        \A x \in ListedContainers :
            LET F == firing.snapshot.Filters
            IN Updated(x.c.ID) <=>
                  \/ Len(F) = 0
                  \/ \E j \in 1..Len(F) :
                        IsSubstring(F[j], x.c.Name) \/ IsSubstring(x.c.Name, F[j])

\* C6 as amended: with a non-empty filter list the sweep updates a listed
\* container iff some pattern is a substring of its name (the empty pattern is a
\* substring of every name); with an empty list every listed container. A '*' in
\* a pattern is an ordinary character.
C6_PatternSubstringOfName ==
    sweep.complete =>
        \A x \in ListedContainers :
            LET F == firing.snapshot.Filters
            IN Updated(x.c.ID) <=>
                  \/ Len(F) = 0
                  \/ \E j \in 1..Len(F) : IsSubstring(F[j], x.c.Name)

\* filter ["a*"]: "ba*" is updated (literal match inside the name), "ab" (a glob
\* match) and "a" (a substring of the pattern) are not
C6_Witness ==
    /\ sweep.complete
    /\ firing.snapshot.Filters = << <<"a", "*">> >>
    /\ sweep.listed = {"docker", "podman"}
    /\ runtimes["docker"][1].Name = <<"b", "a", "*">> /\ Updated("d1")
    /\ runtimes["docker"][2].Name = <<"a", "b">> /\ ~Updated("d2")
    /\ runtimes["podman"][1].Name = <<"a">> /\ ~Updated("p1")

\* C7: a sweep visits every registered runtime; for each one whose ListContainers
\* succeeded it calls UpdateContainer exactly once on every listed container that
\* passes the filter and on no other, whatever failed elsewhere; and a sweep
\* under way can always take its next step, up to its return.
C7_EveryMatchUpdatedOnce ==
    /\ sweep.complete =>
          \A r \in DOMAIN runtimes :
              /\ r \in sweep.listed \cup sweep.listFailed
              /\ \A i \in 1..Len(runtimes[r]) :
                    LET c == runtimes[r][i]
                    IN sweep.calls[c.ID] =
                          IF r \in sweep.listed /\ shouldUpdate(c.Name, firing.snapshot.Filters)
                          THEN 1 ELSE 0
    /\ firing.pc = "sweep" =>
          ENABLED (runUpdate_List \/ runUpdate_Container \/ runUpdate_Return)

\* podman's listing failed, the update of d1 failed, d2 was still updated
C7_Witness ==
    /\ sweep.complete
    /\ sweep.listFailed = {"podman"}
    /\ sweep.listed = {"docker"}
    /\ sweep.updFailed = {"d1"}
    /\ sweep.calls["d2"] = 1

-----------------------------------------------------------------------------
(* Claims about caddy.Service (CaddySpec) *)

\* a step in which a Service call is made (its IsEnabled test is taken)
CallMade == call.pc = "idle" /\ call' # call

\* C8: a call made while the integration is disabled returns at once, without
\* touching a file or running the proxy binary: GenerateCaddyfile,
\* UpdateCaddyfile, DeleteCaddyfile, ListCaddyfiles and Reload with success,
\* GetCaddyfileContent and SetCaddyfileContent with the "not enabled" error; and
\* the Reload that ends a write or removal runs nothing once disabled.
C8_DisabledCallsAreNoOps ==
    [][/\ (CallMade /\ ~caddyCfg.Enabled)
            => /\ files' = files
               /\ call'.pc = "idle"
               /\ call'.execs = 0
               /\ ~call'.wrote
               /\ call'.res = IF call'.op \in {"Get", "Set"} THEN "err_not_enabled" ELSE "ok"
       /\ (call.pc = "reload" /\ ~caddyCfg.Enabled /\ call' # call)
            => /\ files' = files
               /\ call'.execs = call.execs
               /\ call'.res = "ok"]_vars

\* DeleteCaddyfile returned success while disabled and the fragment is still there
C8_Witness ==
    /\ call.pc = "idle"
    /\ call.op = "Delete"
    /\ call.res = "ok"
    /\ ~call.enabled
    /\ ~caddyCfg.Enabled
    /\ files[call.id].exists

\* C9: GenerateCaddyfile on a record whose caddy.domain label is absent or empty
\* returns success at once; no fragment is written, existing files stay as they
\* are and no reload runs, whatever the record's other labels and ports.
C9_NoDomainNoFragment ==
    [][(CallMade /\ call'.op = "Generate" /\ Label(call'.rec.Labels, "caddy.domain") = "")
            => /\ call'.pc = "idle"
               /\ call'.res = "ok"
               /\ ~call'.wrote
               /\ call'.execs = 0
               /\ files' = files]_vars

\* enabled, an empty caddy.domain label beside a port label and a published port,
\* and an existing fragment left in place
C9_Witness ==
    /\ call.pc = "idle"
    /\ call.op = "Generate"
    /\ call.enabled
    /\ "caddy.domain" \in DOMAIN call.rec.Labels
    /\ Label(call.rec.Labels, "caddy.domain") = ""
    /\ Label(call.rec.Labels, "caddy.port") # ""
    /\ Len(call.rec.Ports) > 0
    /\ call.res = "ok"
    /\ ~call.wrote
    /\ files[call.id].exists

IsPublished(p) == p.HostPort # 0

\* the port of the fragment's reverse_proxy line
UpstreamPort(content) ==
    LET i == CHOOSE i \in 1..Len(content) : content[i][1] = "reverse_proxy"
    IN content[i][3]

\* C10: for a record with a caddy.domain label GenerateCaddyfile takes the
\* caddy.port label as upstream port when present, otherwise the first published
\* port; with neither a port label nor a published port it returns an error and
\* writes no fragment.
C10_PortLabelElseFirstPublishedPort ==
    (call.op = "Generate" /\ call.enabled /\ Label(call.rec.Labels, "caddy.domain") # "")
        => LET label == Label(call.rec.Labels, "caddy.port")
               published == SelectSeq(call.rec.Ports, IsPublished)
               claimed == IF label # "" THEN label
                          ELSE IF Len(published) > 0 THEN ToString(published[1].HostPort)
                          ELSE ""
           IN IF claimed = ""
              THEN call.pc = "idle" /\ call.res = "err_no_port" /\ ~call.wrote
              ELSE call.res # "err_no_port" /\ UpstreamPort(call.content) = claimed

C12_DeleteOfMissingSucceeds ==
    /\ [][/\ (call.pc = "remove" /\ ~files[call.id].exists /\ call' # call)
                => /\ call'.pc = "idle"
                   /\ call'.res = "ok"
                   /\ files' = files
                   /\ call'.reloads = 0
                   /\ call'.execs = 0
          /\ (CallMade /\ call'.op = "Delete" /\ ~caddyCfg.Enabled)
                => /\ call'.pc = "idle"
                   /\ call'.res = "ok"
                   /\ files' = files]_vars
    /\ []((/\ call.op = "Delete" /\ call.pc = "idle"
           /\ call.prevDelete.ok
           /\ call.prevDelete.id = call.id
           /\ call.prevDelete.enabled = call.enabled)
              => /\ call.res = "ok"
                 /\ ~call.wrote
                 /\ call.reloads = 0)

\* the first DeleteCaddyfile removed the fragment, the second found none
C12_Witness ==
    /\ call.op = "Delete" /\ call.pc = "idle" /\ call.enabled
    /\ call.prevDelete = [ok |-> TRUE, id |-> call.id, enabled |-> TRUE]
    /\ call.res = "ok"
    /\ ~call.wrote
    /\ ~files[call.id].exists
    /\ ~call.lastSet[call.id].set

-----------------------------------------------------------------------------
(* Claims about the rendered fragment (RenderSpec) *)

\* the value GenerateCaddyfile passes on for a label: the default when the map
\* lookup yields the empty string
Effective(labels, key, default) ==
    IF Label(labels, key) = "" THEN default ELSE Label(labels, key)

HasLine(content, line) == \E i \in 1..Len(content) : content[i] = line

HasDirective(content, word) == \E i \in 1..Len(content) : content[i][1] = word

\* the handle_path block: its opening line, the upstream directive, its closing line
Wrapped(content, prefix) ==
    \E i \in 1..(Len(content) - 2) :
        /\ content[i] = <<"handle_path", prefix, "*", "{">>
        /\ content[i + 1][1] = "reverse_proxy"
        /\ content[i + 2] = <<"}">>

C14_UpstreamIsColonPort ==
    (call.op = "Generate" /\ call.pc = "write")
        => HasLine(call.content, <<"reverse_proxy", ":", PortStr(call.rec)>>)

-----------------------------------------------------------------------------
(* Claims about auto-reload (CaddySpec) *)

\* C15: a write (GenerateCaddyfile, UpdateCaddyfile, SetCaddyfileContent) or
\* removal (DeleteCaddyfile) that succeeded with auto-reload set invokes Reload
\* exactly once before it returns and returns that Reload's result; with
\* auto-reload off it returns success without invoking Reload.  Auto-reload is
\* the value of s.config.AutoReload when the operation tests it.
C15_ReloadFollowsWriteIffAutoReload ==
    /\ []((call.op \in {"Generate", "Update", "Set", "Delete"} /\ call.wrote)
             => /\ call.pc \in {"reload", "idle"}
                /\ call.pc = "reload" => (call.auto /\ call.reloads = 0)
                /\ call.pc = "idle" =>
                      IF call.auto
                      THEN call.reloads = 1 /\ call.res = call.reloadRes
                      ELSE call.reloads = 0 /\ call.execs = 0 /\ call.res = "ok")
    /\ [][(call.pc \in {"write", "remove"} /\ call'.wrote)
             => call'.auto = caddyCfg.AutoReload]_vars

\* a removal that returned the error of the one Reload it invoked
C15_Witness ==
    /\ call.op = "Delete" /\ call.pc = "idle" /\ call.wrote
    /\ call.auto
    /\ call.reloads = 1
    /\ call.execs = 1
    /\ call.res = "err_reload"
    /\ call.reloadRes = "err_reload"

-----------------------------------------------------------------------------
(* Claims about the lifecycle handlers (LifecycleSpec) *)

AllResponded == \A r \in ReqIDs : reqs[r].pc = "done"

\* C16: once all start, stop and delete requests for a container have completed,
\* however they interleaved, a fragment file for its id exists only if the
\* container's last completed engine transition was a start.
C16_FragmentOnlyAfterStart ==
    AllResponded =>
        \A id \in DOMAIN engine : files[id].exists => engine[id].last = "start"

-----------------------------------------------------------------------------
(* Claims about UpdateContainer (UpdateSpec) *)

IsPrefix(s, t) == Len(s) <= Len(t) /\ s = SubSeq(t, 1, Len(s))

\* C17: in both runtimes UpdateContainer issues its engine steps in the order
\* inspect, pull, stop, force-remove, create, start; a step is issued only after
\* all earlier ones succeeded; the first failing step ends the call with that
\* step's error and no later step is issued; success means all six were issued.
C17_StepsInOrderStopAtFirstError ==
    /\ IsPrefix(update.issued, Steps)
    /\ update.failed # "none" =>
          /\ update.pc = "idle"
          /\ update.failed = update.issued[Len(update.issued)]
          /\ update.res = "err_" \o update.failed
    /\ (update.pc # "idle" /\ update.issued # << >>) =>
          update.pc = StepAfter(update.issued[Len(update.issued)])
    /\ (update.pc = "idle" /\ update.res = "ok") => update.issued = Steps
    /\ (update.pc = "idle" /\ update.rt # "none") =>
          (update.res = "ok" <=> update.failed = "none")

\* Podman: the stop failed, so nothing was removed, created or started
C17_Witness ==
    /\ update.rt = "podman"
    /\ update.pc = "idle"
    /\ update.failed = "stop"
    /\ update.issued = <<"inspect", "pull", "stop">>
    /\ update.res = "err_stop"

\* C18: when the create step fails after the force-remove succeeded,
\* UpdateContainer returns an error, the original container is absent from the
\* engine, and nothing is created or retried: create was the last step issued
\* and was issued once.
C18_CreateFailureLeavesContainerAbsent ==
    (update.pc = "idle" /\ update.failed = "create")
        => /\ update.res = "err_create"
           /\ engine[update.id].state = "absent"
           /\ engine[update.id].last = "delete"
           /\ update.fresh = "none"
           /\ update.issued = SubSeq(Steps, 1, 5)

\* Docker: the container d1 was removed and its recreation failed
C18_Witness ==
    /\ update.rt = "docker"
    /\ update.id = "d1"
    /\ update.pc = "idle"
    /\ update.failed = "create"
    /\ engine["d1"].state = "absent"

-----------------------------------------------------------------------------
(* Claims about calculateCPUPercent (CpuSpec) *)

\* C19: calculateCPUPercent returns exactly 0 whenever the current system usage
\* is not above the previous one, whatever the CPU usage delta and the CPU count.
C19_ZeroWhenSystemDeltaNotPositive ==
    (cpu.pc = "done" /\ cpu.stats.SystemUsage <= cpu.stats.PreSystemUsage)
        => cpu.result.num = 0

-----------------------------------------------------------------------------
(* Claims about PodmanRuntime.StreamLogs (LogSpec) *)

\* the lines written to the returned stream
Delivered == {logs.pipe[i] : i \in 1..Len(logs.pipe)}

\* C20: while the context is not cancelled every line the producer placed on
\* stdoutChan or stderrChan is written to the returned stream: a full buffer
\* holds at most its capacity and loses nothing, and when the stream ends every
\* line placed on a channel has been delivered.
C20_NoLineLost ==
    /\ Len(logs.stdoutChan) <= LogBufferSize
    /\ Len(logs.stderrChan) <= LogBufferSize
    /\ (logs.pc = "closed" /\ ~logs.cancelled /\ logs.reader = "reading")
          => Delivered = 1..logs.sent

\* a step the copying goroutine or containers.Logs can take by itself, without
\* the engine ending the stream
GoroutineStep ==
    \/ Logs_SendStdout
    \/ Logs_SendStderr
    \/ Logs_SendOnClosed
    \/ StreamLogs_Stdout
    \/ StreamLogs_Stderr
    \/ StreamLogs_ErrChan
    \/ StreamLogs_CtxDone

BothReturned == logs.pc = "closed" /\ logs.producer = "returned"

\* C21: once the caller has cancelled the context or closed the stream of a
\* following StreamLogs, the copying goroutine and the goroutine running
\* containers.Logs both come to an end: as long as one of them is still alive,
\* one of them has a step to take.
C21_BothGoroutinesEnd ==
    (logs.follow /\ (logs.cancelled \/ logs.reader = "closed"))
        => (BothReturned \/ ENABLED GoroutineStep)


DockerUnsupported ==
    {"SetContainerLabels", "RemoveContainerLabels", "DeletePod", "StartPod", "StopPod",
     "RestartPod"}

\* C22: every operation Docker does not support returns an error, for every
\* container id, label set and pod id, and no such call changes the labels of
\* any container.
C22_UnsupportedAlwaysErrors ==
    /\ [](rtcall.op \in DockerUnsupported => rtcall.res # "nil")
    /\ [][\A id \in DockerIDs : engine'[id].labels = engine[id].labels]_vars

\* SetContainerLabels on a container the engine holds, asking for labels it
\* does not have
C22_Witness ==
    /\ rtcall.op = "SetContainerLabels"
    /\ rtcall.res = "not supported"
    /\ rtcall.labels # << >>
    /\ engine[rtcall.id].labels # rtcall.labels

\* C23: for a fixed directory no other container id has the fragment path of
\* the id a Service call is made for, so the call touches no other id's file.
C23_DistinctIdsDistinctPaths ==
    call.op \in {"WriteFile", "Remove", "ReadFile"}
        => \A other \in PathIDs \ {call.id} : getCaddyfilePath(other) # call.path

\* the path lies below the directory: it continues the cleaned directory
InsideDir(dir, path) ==
    LET d == filepath_Join(dir, << >>)
    IN /\ path.abs = d.abs
       /\ Len(path.segs) > Len(d.segs)
       /\ IsPrefix(d.segs, path.segs)

\* C30: whatever the container id, path separators and ".." elements included,
\* the file a Service call reads, writes or removes lies inside the configured
\* fragment directory.
C30_PathStaysInsideDirectory ==
    call.op \in {"WriteFile", "Remove", "ReadFile"}
        => InsideDir(caddyCfg.CaddyfilePath, call.path)

\* C24: given the same engine answers to create and start, RunContainer of the
\* Docker runtime and of the Podman runtime return the same result and leave
\* the same containers in the engine.
C24_RunContainerSameInBoth ==
    (RunAt("docker", "done") /\ RunAt("podman", "done"))
        => /\ rtcall.res["docker"] = rtcall.res["podman"]
           /\ engine["docker"] = engine["podman"]

\* the attempts the loop made, and whether all of them failed
LoopTried == SubSeq(rtcall.tried, 1, IF Len(rtcall.tried) <= Len(rtcall.socketPaths)
                                     THEN Len(rtcall.tried) ELSE Len(rtcall.socketPaths))

AllCandidatesFailed ==
    /\ Len(rtcall.tried) >= Len(rtcall.socketPaths)
    /\ \A i \in 1..Len(rtcall.socketPaths) : ~rtcall.tried[i][2]

\* C25: NewPodmanRuntime tries the candidates in their order, the custom socket
\* first, and tries nothing after one that connected; it looks for the podman
\* CLI only once every candidate failed, then tries the primary default socket
\* exactly once more; it returns an error exactly when every candidate failed
\* and the CLI is absent or that last attempt failed.
C25_SocketsInOrderThenOneRetry ==
    rtcall.op = "NewPodmanRuntime" =>
        /\ \A i \in 1..Len(LoopTried) : rtcall.tried[i][1] = rtcall.socketPaths[i]
        /\ \A i \in 1..(Len(rtcall.tried) - 1) : ~rtcall.tried[i][2]
        /\ rtcall.cli # "not looked for" => AllCandidatesFailed
        /\ Len(rtcall.tried) <= Len(rtcall.socketPaths) + 1
        /\ Len(rtcall.tried) = Len(rtcall.socketPaths) + 1
              => /\ rtcall.cli = "found"
                 /\ rtcall.tried[Len(rtcall.tried)][1] = Unix("/run/podman/podman.sock")
        /\ rtcall.pc = "done"
              => /\ rtcall.res = "nil"
                    <=> /\ rtcall.tried # << >>
                        /\ rtcall.tried[Len(rtcall.tried)][2]
                        /\ rtcall.connCtx = rtcall.tried[Len(rtcall.tried)][1]
                 /\ rtcall.res # "nil"
                    <=> /\ AllCandidatesFailed
                        /\ \/ rtcall.cli = "not found"
                           \/ /\ Len(rtcall.tried) = Len(rtcall.socketPaths) + 1
                              /\ ~rtcall.tried[Len(rtcall.tried)][2]

\* with PODMAN_SOCKET set every candidate failed, the CLI was found and the one
\* retry on the primary default socket connected
C25_Witness ==
    /\ rtcall.op = "NewPodmanRuntime"
    /\ rtcall.pc = "done"
    /\ Len(rtcall.socketPaths) = Len(DefaultSockets) + 1
    /\ rtcall.socketPaths[1] # DefaultSockets[1]
    /\ Len(rtcall.tried) = Len(rtcall.socketPaths) + 1
    /\ rtcall.res = "nil"

\* C26: no read of a field of s.config by GenerateCaddyfile, DeleteCaddyfile,
\* SetCaddyfileContent, ListCaddyfiles or Reload happens while UpdateConfig
\* holds s.mu for its write: every such read is under the read lock.
C26_ConfigReadsUnderReadLock ==
    (call.op \in ServiceReaders /\ call.field # "none")
        => ~call.raced

\* C27: containers.Logs never sends on stdoutChan or stderrChan after the
\* copying goroutine closed them: on every way out of its loop the channels
\* are closed only when the producer can send no more.
C27_NoSendOnClosedChannel == ~logs.panicked

\* C28: with the integration enabled, once the operations made so far (start,
\* stop, delete, UpdateContainer) have completed without an UpdateContainer
\* error, every fragment file is keyed by the id of a container the engine
\* still has; a replaced container leaves no fragment under its old id.
C28_FragmentsOnlyForExistingContainers ==
    (Quiet /\ update.failed = "none")
        => \A id \in DOMAIN files : files[id].exists => engine[id].state # "absent"

\* C29: when UpdateContainer fails at its inspect step or at its pull step the
\* container is as it was when the call was made (same id, neither stopped nor
\* removed) and no new container has been created.
C29_EarlyFailureLeavesContainerUntouched ==
    update.failed \in {"inspect", "pull"}
        => /\ engine[update.id] = update.before
           /\ update.fresh = "none"

\* the pull of a running container's image failed
C29_Witness ==
    /\ update.failed = "pull"
    /\ update.before.state = "running"
    /\ update.pc = "idle"
====
